---- MODULE Spec2Model ----
(***************************************************************************)
(* Model of the swarm orchestrator of trae-automation-workflows:           *)
(*   - the level scheduler (orchestrator.py get_execution_order and        *)
(*     workflow_runner.py build_execution_order),                          *)
(*   - the level-parallel engine (workflow_runner.py execute_parallel),    *)
(*   - the analyzer / decomposer / execute() pipeline of orchestrator.py,  *)
(*   - the queue file of orchestrator.py and the calls that read and write *)
(*     it, made by concurrent workers,                                     *)
(*   - the step loop of autonomous_agent.py execute_task,                  *)
(*   - execute_workflow of workflow_manager.py and workflow_manager_v2.py. *)
(* Task ids are small naturals; a dependency list is modelled as the set   *)
(* of the ids it holds (the code only tests membership and emptiness of    *)
(* the filtered list).                                                     *)
(***************************************************************************)
EXTENDS Integers, Sequences, FiniteSets, TLC

VARIABLES
  tasks,        \* scheduler input: task id -> set of dependency ids
  sched_pc,     \* "input" | "geo_done" | "done"
  geo_ret,      \* what get_execution_order returned
  beo_ret       \* what build_execution_order returned

schedVars == <<tasks, sched_pc, geo_ret, beo_ret>>

VARIABLES
  ex_tasks,     \* execute_parallel input: task id -> set of dependency ids
  max_workers,  \* execute_parallel's max_workers argument
  ex_pc,        \* main thread: "call" | "submit" | "collect" | "returned" | "idle"
  levels,       \* build_execution_order(tasks), a sequence of sets of ids
  level_idx,    \* index of the level being executed (1-based)
  status,       \* SwarmTask.status of every task
  fut,          \* per task: "none" | "queued" | "running" | "ok" | "raised"
  harvested,    \* futures of the current level already yielded by as_completed
  all_results,  \* task id -> "none" | "result" | "error"
  summary       \* the dict execute_parallel returns

execVars == <<ex_tasks, max_workers, ex_pc, levels, level_idx, status, fut,
              harvested, all_results, summary>>

VARIABLES
  user_request, \* the request string, a sequence of characters
  exec_ret,     \* what orchestrator.py execute(user_request) did
  queue,        \* the content of queue.json
  decomp_ret,   \* what orchestrator.py decompose_task(analyze_task(request)) did
  wr_ret,       \* what workflow_runner.py decompose_task(request) returned
  wr_analysis,  \* what workflow_runner.py analyze_complexity(request) returned
  swarm_ret     \* what workflow_runner.py run_swarm_workflow(request) returned

orchVars == <<user_request, exec_ret, queue, decomp_ret, wr_ret, wr_analysis,
              swarm_ret>>

VARIABLES
  q_file,       \* the content of .trae/swarm/queue.json, or that it is absent
  q_results,    \* the files of .trae/swarm/results: task id -> content
  wk,           \* per worker: where it is in update_task_status / save_result
  q_calls,      \* number of update_task_status / save_result calls made
  obs           \* what the last read-only call of the queue returned

queueVars == <<q_file, q_results, wk, q_calls, obs>>

VARIABLES
  lp_dag,       \* the scheduler loops' input: task id -> set of dependency ids
  lp_pc,        \* "call_geo" | "geo_loop" | "call_beo" | "beo_loop" | "returned"
  lp_remaining, \* the local remaining of the running scheduler
  lp_in_degree, \* the local in_degree of get_execution_order
  lp_completed, \* the local completed of build_execution_order
  lp_levels,    \* the local levels of the running scheduler
  lp_geo        \* the levels get_execution_order returned

loopVars == <<lp_dag, lp_pc, lp_remaining, lp_in_degree, lp_completed,
              lp_levels, lp_geo>>

VARIABLES
  ag_steps,     \* task.steps: per step its status and retry_count
  ag_current,   \* task.current_step
  ag_status,    \* task.status
  ag_pc,        \* execute_task: "created" | "loop" | "step_failed" | "returned"
  ag_ret        \* what execute_task returned: "none" | "success" | "failure"

agentVars == <<ag_steps, ag_current, ag_status, ag_pc, ag_ret>>

VARIABLES
  wf_version,   \* "v1": WorkflowManager, "v2": WorkflowManagerV2
  wf_file,      \* the workflow's yaml file: "absent" | "unreadable" | "ok"
  wf_steps,     \* workflow['steps']: per step its on_failure value
  wf_called,    \* the indices of the steps given to _execute_step, in call order
  wf_results,   \* results: per step that returned, its index and status
  wf_pc,        \* execute_workflow: "called" | "loop" | "returned" | "raised"
  wf_ret        \* the dict execute_workflow returned

wfVars == <<wf_version, wf_file, wf_steps, wf_called, wf_results, wf_pc, wf_ret>>

vars == <<schedVars, execVars, orchVars, queueVars, loopVars, agentVars, wfVars>>

\* what the actions of one part of the model leave alone
notSched == <<execVars, orchVars, queueVars, loopVars, agentVars, wfVars>>
notExec == <<schedVars, orchVars, queueVars, loopVars, agentVars, wfVars>>
notOrch == <<schedVars, execVars, queueVars, loopVars, agentVars, wfVars>>
notQueue == <<schedVars, execVars, orchVars, loopVars, agentVars, wfVars>>
notLoop == <<schedVars, execVars, orchVars, queueVars, agentVars, wfVars>>
notAgent == <<schedVars, execVars, orchVars, queueVars, loopVars, wfVars>>
notWf == <<schedVars, execVars, orchVars, queueVars, loopVars, agentVars>>

-----------------------------------------------------------------------------
(* Bounds of the model *)

\* number of tasks of a scheduler input
NumTasks == 3
\* largest dependency list of a scheduler input
MaxDeps == 2

TaskIds == 1..NumTasks
\* an id that names no task of the graph (a dangling reference)
Dangling == NumTasks + 1
DepSets == {s \in SUBSET (TaskIds \cup {Dangling}) : Cardinality(s) <= MaxDeps}

NoRet == [kind |-> "none"]

-----------------------------------------------------------------------------
(* Graph vocabulary used by the properties *)

RECURSIVE Closure(_, _)
Closure(t, S) ==
  LET S2 == S \cup UNION {t[x] \cap DOMAIN t : x \in S}
  IN IF S2 = S THEN S ELSE Closure(t, S2)

\* the tasks of t that n depends on, directly or not
TransDeps(t, n) == Closure(t, t[n] \cap DOMAIN t)

HasCycle(t) == \E n \in DOMAIN t : n \in TransDeps(t, n)

\* every dependency id names a task of t
DepClosed(t) == \A n \in DOMAIN t : t[n] \subseteq DOMAIN t

Scheduled(lv) == UNION {lv[k] : k \in 1..Len(lv)}

Before(lv, k) == UNION {lv[j] : j \in 1..(k-1)}

-----------------------------------------------------------------------------
(* orchestrator.py: build_dag, get_execution_order *)

\* lines 271-275: dag[task.task_id] = task.dependencies, for a list of SubTask
build_dag(ts) ==
  [id \in {ts[i].task_id : i \in 1..Len(ts)} |->
     ts[CHOOSE i \in 1..Len(ts) : ts[i].task_id = id].dependencies]

\* lines 284-285: in_degree[node] = len([d for d in deps if d in dag])
InDegreeInit(dag) ==
  [n \in DOMAIN dag |-> Cardinality({d \in dag[n] : d \in DOMAIN dag})]

\* line 291: ready = [n for n in remaining if in_degree[n] == 0]
GeoReadyLoose(in_degree, remaining) == {n \in remaining : in_degree[n] <= 1}

GeoReadyOne(in_degree, remaining) ==
  LET z == {n \in remaining : in_degree[n] = 0}
  IN IF z = {} THEN {} ELSE {CHOOSE n \in z : \A m \in z : n <= m}

GeoReady(in_degree, remaining) == {n \in remaining : in_degree[n] = 0}

\* lines 298-299: in_degree of the remaining nodes, counting remaining deps only
GeoUpdate(dag, in_degree, remaining) ==
  [n \in DOMAIN dag |->
     IF n \in remaining
     THEN Cardinality({d \in dag[n] : d \in remaining})
     ELSE in_degree[n]]

\* lines 290-299: the while loop
RECURSIVE GeoLoop(_, _, _, _)
GeoLoop(dag, in_degree, remaining, lv) ==
  IF remaining = {} THEN lv
  ELSE LET ready == GeoReady(in_degree, remaining)
       IN IF ready = {} THEN lv
          ELSE GeoLoop(dag, GeoUpdate(dag, in_degree, remaining \ ready),
                       remaining \ ready, Append(lv, ready))

get_execution_order(dag) == GeoLoop(dag, InDegreeInit(dag), DOMAIN dag, <<>>)

-----------------------------------------------------------------------------
(* workflow_runner.py: build_execution_order *)

\* lines 123-127: tasks of remaining whose dependencies are all in completed
BeoReadyAny(t, completed, remaining) ==
  {tid \in remaining : t[tid] = {} \/ \E d \in t[tid] : d \in completed}

BeoReady(t, completed, remaining) ==
  {tid \in remaining : \A d \in t[tid] : d \in completed}

\* lines 122-135: the while loop
RECURSIVE BeoLoop(_, _, _, _)
BeoLoop(t, completed, remaining, lv) ==
  IF remaining = {} THEN lv
  ELSE LET ready == BeoReady(t, completed, remaining)
       IN IF ready = {} THEN lv
          ELSE BeoLoop(t, completed \cup ready, remaining \ ready,
                       Append(lv, ready))

build_execution_order(t) == BeoLoop(t, {}, DOMAIN t, <<>>)

-----------------------------------------------------------------------------
(* Scheduler specification: both schedulers applied to every bounded input *)

SchedIdle ==
  /\ tasks = [n \in {} |-> {}]
  /\ sched_pc = "idle"
  /\ geo_ret = NoRet
  /\ beo_ret = NoRet

SchedInit ==
  /\ tasks \in [TaskIds -> DepSets]
  /\ sched_pc = "input"
  /\ geo_ret = NoRet
  /\ beo_ret = NoRet

\* orchestrator.py: get_execution_order(dag) with the dag of the input; the
\* function has no raise statement, so what it hands back is always a level list
CallGetExecutionOrder ==
  /\ sched_pc = "input"
  /\ geo_ret' = [kind |-> "levels", levels |-> get_execution_order(tasks)]
  /\ sched_pc' = "geo_done"
  /\ UNCHANGED <<tasks, beo_ret>>

\* workflow_runner.py: build_execution_order(tasks); no raise statement either
CallBuildExecutionOrder ==
  /\ sched_pc = "geo_done"
  /\ beo_ret' = [kind |-> "levels", levels |-> build_execution_order(tasks)]
  /\ sched_pc' = "done"
  /\ UNCHANGED <<tasks, geo_ret>>

-----------------------------------------------------------------------------
(* workflow_runner.py: execute_parallel and _execute_single_task *)

\* largest max_workers argument tried
MaxWorkers == 2

ExecDepSets == {s \in SUBSET TaskIds : Cardinality(s) <= MaxDeps}

Terminal == {"completed", "failed"}

Count(st, s) == Cardinality({t \in DOMAIN st : st[t] = s})

ExecIdle ==
  /\ ex_tasks = [n \in {} |-> {}]
  /\ max_workers = 0
  /\ ex_pc = "idle"
  /\ levels = <<>>
  /\ level_idx = 0
  /\ status = [n \in {} |-> "pending"]
  /\ fut = [n \in {} |-> "none"]
  /\ harvested = {}
  /\ all_results = [n \in {} |-> "none"]
  /\ summary = NoRet

\* the scenario of spec section 8: A (1) without dependencies, B (2) and C (3)
\* depending on A, D (4) depending on B and C
Diamond == <<{}, {1}, {1}, {2, 3}>>

DiamondLevels == <<{1}, {2, 3}, {4}>>

ExecInit ==
  /\ ex_tasks \in [TaskIds -> ExecDepSets] \cup {Diamond}
  /\ max_workers \in 1..MaxWorkers
  /\ ex_pc = "call"
  /\ levels = <<>>
  /\ level_idx = 0
  /\ status = [n \in DOMAIN ex_tasks |-> "pending"]
  /\ fut = [n \in DOMAIN ex_tasks |-> "none"]
  /\ harvested = {}
  /\ all_results = [n \in DOMAIN ex_tasks |-> "none"]
  /\ summary = NoRet

\* orchestrator.py lines 412-414: the status aggregate_results derives from
\* the numbers of completed and failed tasks
final_status_no_partial(completed, failed) ==
  IF failed > 0 THEN "failed" ELSE "success"

final_status(completed, failed) ==
  IF failed > 0
  THEN (IF completed > 0 THEN "partial" ELSE "failed")
  ELSE "success"

\* lines 166-172: the dict execute_parallel returns
Summary(st, res) ==
  [status |-> "completed",
   total_tasks |-> Cardinality(DOMAIN st),
   completed |-> Count(st, "completed"),
   failed |-> Count(st, "failed"),
   results |-> {t \in DOMAIN res : res[t] # "none"}]

\* lines 141-144: build the levels, enter the first one (or return at once)
ExecStart ==
  /\ ex_pc = "call"
  /\ levels' = build_execution_order(ex_tasks)
  /\ IF levels' = <<>>
     THEN /\ ex_pc' = "returned"
          /\ level_idx' = 0
          /\ summary' = Summary(status, all_results)
     ELSE /\ ex_pc' = "submit"
          /\ level_idx' = 1
          /\ summary' = summary
  /\ UNCHANGED <<ex_tasks, max_workers, status, fut, harvested, all_results>>

\* lines 150-152: executor.submit(self._execute_single_task, task)
Submit(t) ==
  /\ ex_pc = "submit"
  /\ t \in levels[level_idx]
  /\ fut[t] = "none"
  /\ fut' = [fut EXCEPT ![t] = "queued"]
  /\ ex_pc' = IF \A u \in levels[level_idx] \ {t} : fut[u] # "none"
              THEN "collect" ELSE "submit"
  /\ UNCHANGED <<ex_tasks, max_workers, levels, level_idx, status, harvested,
                 all_results, summary>>

\* ThreadPoolExecutor(max_workers): a worker thread is free to take a work item
WorkerFreeOffByOne(f, mw) == Cardinality({u \in DOMAIN f : f[u] = "running"}) <= mw

WorkerFree(f, mw) == Cardinality({u \in DOMAIN f : f[u] = "running"}) < mw

\* line 176: a pool worker takes the work item and sets task.status = "running"
WorkerStart(t) ==
  /\ fut[t] = "queued"
  /\ WorkerFree(fut, max_workers)
  /\ fut' = [fut EXCEPT ![t] = "running"]
  /\ status' = [status EXCEPT ![t] = "running"]
  /\ UNCHANGED <<ex_tasks, max_workers, ex_pc, levels, level_idx, harvested,
                 all_results, summary>>

\* lines 177-183: the step ends and _execute_single_task returns its dict
WorkerReturn(t) ==
  /\ fut[t] = "running"
  /\ fut' = [fut EXCEPT ![t] = "ok"]
  /\ UNCHANGED <<ex_tasks, max_workers, ex_pc, levels, level_idx, status,
                 harvested, all_results, summary>>

\* lines 156-157, 161: the step raises, the future holds the exception
WorkerRaise(t) ==
  /\ fut[t] = "running"
  /\ fut' = [fut EXCEPT ![t] = "raised"]
  /\ UNCHANGED <<ex_tasks, max_workers, ex_pc, levels, level_idx, status,
                 harvested, all_results, summary>>

\* lines 156-164: what the body of the as_completed loop does with a future
OnFutureAbort(f) ==
  IF f = "ok"
  THEN [status |-> "completed", result |-> "result", pc |-> "collect"]
  ELSE [status |-> "running", result |-> "none", pc |-> "crashed"]

OnFuture(f) ==
  IF f = "ok"
  THEN [status |-> "completed", result |-> "result", pc |-> "collect"]
  ELSE [status |-> "failed", result |-> "error", pc |-> "collect"]

\* lines 154-164: as_completed yields a finished future of this level
Collect(t) ==
  /\ ex_pc = "collect"
  /\ t \in levels[level_idx] \ harvested
  /\ fut[t] \in {"ok", "raised"}
  /\ harvested' = harvested \cup {t}
  /\ status' = [status EXCEPT ![t] = OnFuture(fut[t]).status]
  /\ all_results' = [all_results EXCEPT ![t] = OnFuture(fut[t]).result]
  /\ ex_pc' = OnFuture(fut[t]).pc
  /\ UNCHANGED <<ex_tasks, max_workers, levels, level_idx, fut, summary>>

\* lines 148, 154: the as_completed loop and the with block end once every
\* future submitted for the level has been yielded
LevelDoneEarly(lv, k, h) == \E t \in lv[k] : t \in h

LevelDone(lv, k, h) == \A t \in lv[k] : t \in h

\* line 144: the for loop moves to the next level
NextLevel ==
  /\ ex_pc = "collect"
  /\ LevelDone(levels, level_idx, harvested)
  /\ level_idx < Len(levels)
  /\ level_idx' = level_idx + 1
  /\ ex_pc' = "submit"
  /\ UNCHANGED <<ex_tasks, max_workers, levels, status, fut, harvested,
                 all_results, summary>>

\* lines 166-172: after the last level
Return ==
  /\ ex_pc = "collect"
  /\ LevelDone(levels, level_idx, harvested)
  /\ level_idx = Len(levels)
  /\ ex_pc' = "returned"
  /\ summary' = Summary(status, all_results)
  /\ UNCHANGED <<ex_tasks, max_workers, levels, level_idx, status, fut,
                 harvested, all_results>>

-----------------------------------------------------------------------------
(* orchestrator.py: analyze_task.  A string is a sequence of characters;    *)
(* each Chinese character is written as one ASCII token.                   *)

\* largest number of words of a request
MaxWords == 4

Space == " "

kw_xitong == <<"xi", "tong">>                            \* 系统
kw_jiagou == <<"jia", "gou">>                            \* 架构
kw_chonggou == <<"chong", "gou">>                        \* 重构
kw_kaifa == <<"kai", "fa">>                              \* 开发
kw_shixian == <<"shi_real", "xian">>                     \* 实现
kw_jicheng == <<"ji", "cheng">>                          \* 集成
kw_bushu == <<"bu", "shu">>                              \* 部署
kw_ceshitaojian == <<"ce", "shi_test", "tao", "jian">>   \* 测试套件
kw_wendangxitong == <<"wen", "dang", "xi", "tong">>      \* 文档系统
kw_xiugai == <<"xiu", "gai">>                            \* 修改
kw_xiufu == <<"xiu", "fu">>                              \* 修复
kw_youhua == <<"you", "hua">>                            \* 优化
kw_tianjia == <<"tian", "jia_add">>                      \* 添加
kw_gengxin == <<"geng", "xin">>                          \* 更新
kw_bingxing == <<"bing", "xing">>                        \* 并行
kw_tongshi == <<"tong_same", "shi_time">>                \* 同时
kw_ceshi == <<"ce", "shi_test">>                         \* 测试
kw_wendang == <<"wen", "dang">>                          \* 文档
kw_diaoyan == <<"diao", "yan">>                          \* 调研
kw_yanjiu == <<"yan", "jiu">>                            \* 研究
w_yigewenjian == <<"yi", "ge", "wen", "jian">>           \* 一个文件
kw_goujian == <<"gou", "jian_build">>                    \* 构建
kw_sheji == <<"she", "ji_plan">>                         \* 设计

\* lines 107-110
keywords_complex ==
  {kw_xitong, kw_jiagou, kw_chonggou, kw_kaifa, kw_shixian, kw_jicheng,
   kw_bushu, kw_ceshitaojian, kw_wendangxitong}

\* lines 111-113
keywords_simple == {kw_xiugai, kw_xiufu, kw_youhua, kw_tianjia, kw_gengxin}

\* Python's  kw in user_request : kw is a contiguous part of the string
Contains(kw, str) ==
  \E i \in 1..(Len(str) - Len(kw) + 1) :
    \A j \in 1..Len(kw) : str[i + j - 1] = kw[j]

\* lines 115-122
complexity_score(req) ==
  2 * Cardinality({kw \in keywords_complex : Contains(kw, req)})
  + Cardinality({kw \in keywords_simple : Contains(kw, req)})

\* lines 134-142
task_type_docs_first(req) ==
  IF Contains(kw_wendang, req) THEN "docs"
  ELSE IF Contains(kw_ceshi, req) THEN "test"
  ELSE IF Contains(kw_diaoyan, req) \/ Contains(kw_yanjiu, req) THEN "research"
  ELSE IF Contains(kw_chonggou, req) THEN "refactor"
  ELSE "development"

task_type(req) ==
  IF Contains(kw_ceshi, req) THEN "test"
  ELSE IF Contains(kw_wendang, req) THEN "docs"
  ELSE IF Contains(kw_diaoyan, req) \/ Contains(kw_yanjiu, req) THEN "research"
  ELSE IF Contains(kw_chonggou, req) THEN "refactor"
  ELSE "development"

\* lines 106-150
analyze_task(req) ==
  LET score == complexity_score(req)
  IN [core_goal |-> req,
      task_type |-> task_type(req),
      complexity |-> IF score >= 4 THEN "complex"
                     ELSE IF score >= 2 THEN "medium" ELSE "simple",
      swarm_mode |-> IF score >= 4 THEN TRUE
                     ELSE IF score >= 2
                          THEN Contains(kw_bingxing, req) \/ Contains(kw_tongshi, req)
                          ELSE FALSE,
      score |-> score]

-----------------------------------------------------------------------------
(* orchestrator.py: decompose_task.  _generate_task_id draws a fresh id per *)
(* SubTask; the k-th id drawn is modelled as k.                            *)

SubTask(id, desc, worker, deps, prio) ==
  [task_id |-> id, description |-> desc, worker_type |-> worker,
   dependencies |-> deps, priority |-> prio, status |-> "pending",
   worker_id |-> "None", completed_at |-> "None", result_file |-> "None"]

\* Python's  seq[i]  (0-based) is an item when this holds, IndexError otherwise
IndexOk(seq, i) == i + 1 <= Len(seq)

\* lines 156-199: the list literal of the development branch; prior is the
\* value the name tasks is bound to while the literal is evaluated
DevelopmentLiteral(prior) ==
  [raised |-> "none",
   tasks |-> <<
     SubTask(1, "research", "researcher", {}, "high"),
     SubTask(2, "design", "coder",
             IF Len(prior) > 0 THEN {prior[1].task_id} ELSE {}, "high"),
     SubTask(3, "implement", "coder",
             IF Len(prior) > 1 THEN {prior[2].task_id} ELSE {}, "high"),
     SubTask(4, "test", "tester",
             IF Len(prior) > 2 THEN {prior[3].task_id} ELSE {}, "medium"),
     SubTask(5, "document", "writer",
             IF Len(prior) > 2 THEN {prior[3].task_id} ELSE {}, "medium"),
     SubTask(6, "review", "reviewer",
             IF Len(prior) > 3
             THEN {prior[k].task_id : k \in 3..4} ELSE {}, "medium") >>]

\* lines 202-231: the refactor branch subscripts tasks[0], tasks[1], tasks[2]
\* without a guard
RefactorLiteral(prior) ==
  IF ~(IndexOk(prior, 0) /\ IndexOk(prior, 1) /\ IndexOk(prior, 2))
  THEN [raised |-> "IndexError", tasks |-> <<>>]
  ELSE [raised |-> "none",
        tasks |-> <<
          SubTask(1, "analyse", "researcher", {}, "high"),
          SubTask(2, "plan", "coder", {prior[1].task_id}, "high"),
          SubTask(3, "refactor", "coder", {prior[2].task_id}, "high"),
          SubTask(4, "verify", "tester", {prior[3].task_id}, "medium") >>]

\* lines 234-256: the test branch subscripts tasks[0], tasks[1]
TestLiteral(prior) ==
  IF ~(IndexOk(prior, 0) /\ IndexOk(prior, 1))
  THEN [raised |-> "IndexError", tasks |-> <<>>]
  ELSE [raised |-> "none",
        tasks |-> <<
          SubTask(1, "analyse_tests", "researcher", {}, "high"),
          SubTask(2, "write_tests", "tester", {prior[1].task_id}, "high"),
          SubTask(3, "run_tests", "tester", {prior[2].task_id}, "medium") >>]

\* lines 259-267
FallbackResearcher(prior) ==
  [raised |-> "none",
   tasks |-> << SubTask(1, "execute_goal", "researcher", {}, "medium") >>]

FallbackLiteral(prior) ==
  [raised |-> "none",
   tasks |-> << SubTask(1, "execute_goal", "coder", {}, "medium") >>]

\* lines 152-269: tasks = [] at line 153, then the branch on task_type
decompose_task(analysis) ==
  LET prior == <<>>
  IN IF analysis.task_type = "development" THEN DevelopmentLiteral(prior)
     ELSE IF analysis.task_type = "refactor" THEN RefactorLiteral(prior)
     ELSE IF analysis.task_type = "test" THEN TestLiteral(prior)
     ELSE FallbackLiteral(prior)

\* lines 303-316: the record create_queue dumps into queue.json
create_queue(main_task_id, ts, dag) ==
  [kind |-> "file",
   version |-> "1.0",
   main_task_id |-> main_task_id,
   tasks |-> [id \in DOMAIN dag |->
                ts[CHOOSE i \in 1..Len(ts) : ts[i].task_id = id]],
   dag |-> dag,
   execution_order |-> get_execution_order(dag)]

-----------------------------------------------------------------------------
(* workflow_runner.py: analyze_complexity *)

\* line 60
complex_keywords ==
  {kw_xitong, kw_jiagou, kw_chonggou, kw_kaifa, kw_shixian, kw_goujian, kw_sheji}

\* line 61
simple_keywords == {kw_xiugai, kw_xiufu, kw_youhua, kw_tianjia, kw_gengxin}

\* lines 58-71
analyze_complexity(task_description) ==
  LET score ==
        2 * Cardinality({kw \in complex_keywords : Contains(kw, task_description)})
        + Cardinality({kw \in simple_keywords : Contains(kw, task_description)})
  IN IF score >= 4 THEN [complexity |-> "complex", swarm_mode |-> TRUE]
     ELSE IF score >= 2 THEN [complexity |-> "medium", swarm_mode |-> FALSE]
     ELSE [complexity |-> "simple", swarm_mode |-> FALSE]

-----------------------------------------------------------------------------
(* workflow_runner.py: decompose_task, a fixed list whatever the description *)

SwarmTask(id, desc, worker, deps) ==
  [task_id |-> id, description |-> desc, worker_type |-> worker,
   dependencies |-> deps, status |-> "pending"]

\* lines 73-113: task_001 .. task_006 are written 1 .. 6
runner_decompose_task(task_description) ==
  << SwarmTask(1, "research", "researcher", {}),
     SwarmTask(2, "design", "coder", {1}),
     SwarmTask(3, "implement", "coder", {2}),
     SwarmTask(4, "test", "tester", {3}),
     SwarmTask(5, "document", "writer", {3}),
     SwarmTask(6, "review", "reviewer", {3, 4, 5}) >>

-----------------------------------------------------------------------------
(* Requests, and the calls made on them *)

Vocabulary ==
  {kw_kaifa, kw_jiagou, kw_xitong, kw_chonggou, kw_xiugai, w_yigewenjian,
   kw_bingxing, kw_ceshitaojian, kw_wendang, kw_diaoyan}

\* orchestrator.py line 491: " ".join(sys.argv[1:])
RECURSIVE Join(_)
Join(ws) ==
  IF ws = <<>> THEN <<>>
  ELSE IF Len(ws) = 1 THEN ws[1]
  ELSE ws[1] \o <<Space>> \o Join(Tail(ws))

\* the requests tried: at most MaxWords different words of the vocabulary
WordLists ==
  {ws \in UNION {[1..n -> Vocabulary] : n \in 0..MaxWords} :
     \A i, j \in 1..Len(ws) : ws[i] = ws[j] => i = j}

Requests == {Join(ws) : ws \in WordLists}

NoFile == [kind |-> "absent"]

OrchIdle ==
  /\ user_request = <<>>
  /\ exec_ret = [kind |-> "idle"]
  /\ queue = NoFile
  /\ decomp_ret = [kind |-> "idle"]
  /\ wr_ret = [kind |-> "idle"]
  /\ wr_analysis = [kind |-> "idle"]
  /\ swarm_ret = [kind |-> "idle"]

\* the queue file an earlier execute() of a request of the fallback
\* category left behind
EarlierQueue ==
  create_queue("earlier", FallbackLiteral(<<>>).tasks,
               build_dag(FallbackLiteral(<<>>).tasks))

OrchInit ==
  /\ user_request \in Requests
  /\ exec_ret = NoRet
  /\ queue \in {NoFile, EarlierQueue}
  /\ decomp_ret = NoRet
  /\ wr_ret = NoRet
  /\ wr_analysis = NoRet
  /\ swarm_ret = NoRet

\* orchestrator.py line 444: if not analysis.swarm_mode
SimpleTaskNever(analysis) == FALSE

SimpleTask(analysis) == ~analysis.swarm_mode

\* orchestrator.py lines 436-480: execute(user_request), start to end.  The
\* IndexError of decompose_task is caught nowhere and leaves execute
Execute ==
  /\ exec_ret.kind = "none"
  /\ \E analysis \in {analyze_task(user_request)} :
     \E dec \in {decompose_task(analysis)} :
     \E dag \in {build_dag(dec.tasks)} :
        IF SimpleTask(analysis)
        THEN /\ exec_ret' = [kind |-> "returned", status |-> "simple_task",
                             analysis |-> analysis]
             /\ queue' = queue
        ELSE IF dec.raised # "none"
        THEN /\ exec_ret' = [kind |-> "raised", exception |-> dec.raised,
                             analysis |-> analysis]
             /\ queue' = queue
        ELSE /\ exec_ret' = [kind |-> "returned", status |-> "ready",
                             analysis |-> analysis, tasks |-> dec.tasks,
                             dag |-> dag,
                             execution_order |-> get_execution_order(dag)]
             /\ queue' = create_queue("main", dec.tasks, dag)
  /\ UNCHANGED <<user_request, decomp_ret, wr_ret, wr_analysis, swarm_ret>>

\* a direct call decompose_task(analyze_task(user_request))
CallDecompose ==
  /\ exec_ret.kind # "none"
  /\ decomp_ret.kind = "none"
  /\ \E analysis \in {analyze_task(user_request)} :
     \E dec \in {decompose_task(analysis)} :
        decomp_ret' = [kind |-> IF dec.raised = "none" THEN "returned" ELSE "raised",
                       task_type |-> analysis.task_type,
                       tasks |-> dec.tasks]
  /\ UNCHANGED <<user_request, exec_ret, queue, wr_ret, wr_analysis, swarm_ret>>

\* workflow_runner.py: decompose_task(user_request)
CallRunnerDecompose ==
  /\ decomp_ret.kind # "none"
  /\ wr_ret.kind = "none"
  /\ wr_ret' = [kind |-> "returned", tasks |-> runner_decompose_task(user_request)]
  /\ UNCHANGED <<user_request, exec_ret, queue, decomp_ret, wr_analysis,
                 swarm_ret>>

\* workflow_runner.py: analyze_complexity(user_request)
CallAnalyzeComplexity ==
  /\ wr_ret.kind # "none"
  /\ wr_analysis.kind = "none"
  /\ wr_analysis' = [kind |-> "returned",
                     analysis |-> analyze_complexity(user_request)]
  /\ UNCHANGED <<user_request, exec_ret, queue, decomp_ret, wr_ret, swarm_ret>>

\* workflow_runner.py lines 276-307: run_swarm_workflow(user_request), start
\* to end.  _execute_single_task (174-183) sleeps and returns its dict, so
\* execute_parallel completes every task it schedules; nothing in the file
\* opens queue.json
RunSwarmWorkflow ==
  /\ wr_analysis.kind # "none"
  /\ swarm_ret.kind = "none"
  /\ \E analysis \in {analyze_complexity(user_request)} :
     \E ts \in {runner_decompose_task(user_request)} :
     \E lv \in {build_execution_order([i \in 1..Len(ts) |-> ts[i].dependencies])} :
        IF ~analysis.swarm_mode
        THEN swarm_ret' = [kind |-> "returned", status |-> "simple"]
        ELSE swarm_ret' = [kind |-> "returned", status |-> "completed",
                           total_tasks |-> Len(ts),
                           completed |-> Cardinality(Scheduled(lv)),
                           failed |-> 0,
                           results |-> Scheduled(lv)]
  /\ UNCHANGED <<user_request, exec_ret, queue, decomp_ret, wr_ret, wr_analysis>>

-----------------------------------------------------------------------------
(* orchestrator.py: the queue file, the calls that read it and the calls    *)
(* that write it.  Nothing in the class takes a lock.                      *)

\* largest number of tasks of a queue
QueueTasks == 2
\* number of writing calls (update_task_status, save_result) the workers make
MaxCalls == 2

Workers == {"worker_a", "worker_b"}

\* a dependency id that names no task of the queue
QueueDangling == QueueTasks + 1

\* task lists 1..n in which each task depends on tasks created before it
\* and possibly on ids of the set extra
TaskListsOver(extra) ==
  UNION {{[i \in 1..n |-> SubTask(i, "subtask", "coder", d[i], "medium")] :
            d \in {f \in [1..n -> SUBSET (1..n \cup extra)] :
                     \A i \in 1..n : \A x \in f[i] : x < i \/ x \in extra}} :
         n \in 0..QueueTasks}

\* the task lists handed to create_queue where the calls that write the
\* queue are followed; these calls never read a dependency list
QueueInputs == TaskListsOver({})

\* the task lists handed to create_queue where the calls that read the queue
\* are applied: a dependency list may also hold an id that names no task
QueryInputs == TaskListsOver({QueueDangling})

\* lines 318-323: {} when there is no file, the parsed file otherwise
EmptyDict == [kind |-> "empty_dict"]

\* the file between open(queue_path, 'w'), which empties it, and the end of
\* json.dump (lines 331-332): not a JSON document
PartialFile == [kind |-> "partial"]

\* what json.load (line 323) does with such a file; no caller catches it
JSONDecodeError == [kind |-> "raised", exception |-> "JSONDecodeError"]

read_queue(file) ==
  IF file.kind = "absent" THEN EmptyDict
  ELSE IF file.kind = "partial" THEN JSONDecodeError
  ELSE file

\* an exception of read_queue leaves the calling method; ret is what the
\* method returns otherwise
Propagate(q, ret) == IF q.kind = "raised" THEN q ELSE ret

\* queue.get("tasks", {})
TasksOf(q) == IF q = EmptyDict THEN << >> ELSE q.tasks

\* lines 327-328: the record of task_id with the status and the keyword
\* arguments written into it
UpdatedTask(task, new_status, kwargs) ==
  IF kwargs.kind = "none"
  THEN [task EXCEPT !.status = new_status]
  ELSE [task EXCEPT !.status = new_status,
                    !.worker_id = kwargs.worker_id,
                    !.result_file = kwargs.result_file,
                    !.completed_at = kwargs.completed_at]

UpdatedQueueNoOrder(q, task_id, new_status, kwargs) ==
  [q EXCEPT !.tasks[task_id] = UpdatedTask(@, new_status, kwargs),
            !.execution_order = <<>>]

UpdatedQueue(q, task_id, new_status, kwargs) ==
  [q EXCEPT !.tasks[task_id] = UpdatedTask(@, new_status, kwargs)]

\* lines 385, 392: str(self.results_path / f"{task_id}.json")
ResultPath(task_id) == <<"results", task_id>>

\* lines 375-383: the dict save_result writes to the result file
ResultDict(task_id, worker_id) ==
  [task_id |-> task_id, worker_id |-> worker_id, status |-> "completed",
   output |-> <<"output_of", worker_id>>, completed_at |-> "time"]

\* lines 389-395: the keyword arguments save_result gives update_task_status
SaveKwargs(task_id, worker_id) ==
  [kind |-> "kwargs", worker_id |-> worker_id,
   result_file |-> ResultPath(task_id), completed_at |-> "time"]

NoKwargs == [kind |-> "none"]

\* lines 339-351: the pending tasks whose dependencies are all in the set of
\* completed task ids, in the order of the file
GetReadyNotRunning(q) ==
  IF q = EmptyDict THEN <<>>
  ELSE LET ts == q.tasks
           completed_tasks == {tid \in DOMAIN ts : ts[tid].status = "completed"}
           IsReady(tid) == /\ ts[tid].status # "running"
                           /\ \A d \in ts[tid].dependencies : d \in completed_tasks
           ids == [i \in 1..Cardinality(DOMAIN ts) |-> i]
           ready == SelectSeq(ids, IsReady)
       IN [i \in 1..Len(ready) |-> ts[ready[i]]]

get_ready_tasks(q) ==
  IF q = EmptyDict THEN <<>>
  ELSE LET ts == q.tasks
           completed_tasks == {tid \in DOMAIN ts : ts[tid].status = "completed"}
           IsReady(tid) == /\ ts[tid].status = "pending"
                           /\ \A d \in ts[tid].dependencies : d \in completed_tasks
           ids == [i \in 1..Cardinality(DOMAIN ts) |-> i]
           ready == SelectSeq(ids, IsReady)
       IN [i \in 1..Len(ready) |-> ts[ready[i]]]

\* lines 366-369: completed / total * 100 as the fraction num / den, or the
\* integer 0 (0 / 1) when total is 0
ProgressPercent(completed, total) ==
  IF total > 0 THEN [num |-> completed * 100, den |-> total]
  ELSE [num |-> 0, den |-> 1]

\* lines 355-371; the dict returned when there is no queue has no
\* progress_percent key
get_progress(q) ==
  IF q = EmptyDict
  THEN [total |-> 0, completed |-> 0, running |-> 0, pending |-> 0, failed |-> 0]
  ELSE LET ts == q.tasks
           n(s) == Cardinality({t \in DOMAIN ts : ts[t].status = s})
       IN [total |-> Cardinality(DOMAIN ts),
           completed |-> n("completed"), running |-> n("running"),
           pending |-> n("pending"), failed |-> n("failed"),
           progress_percent |-> ProgressPercent(n("completed"), Cardinality(DOMAIN ts))]

\* lines 424-434: one line per result, "已完成" for an output without summary
generate_summary(results) ==
  IF DOMAIN results = {} THEN "no_results"
  ELSE [t \in DOMAIN results |-> <<t, "done">>]

\* lines 397-422
aggregate_results(q, files) ==
  IF q = EmptyDict THEN [status |-> "no_tasks", results |-> << >>]
  ELSE LET ts == q.tasks
           with_result == {t \in DOMAIN ts :
                             /\ ts[t].status = "completed"
                             /\ ts[t].result_file # "None"
                             /\ \E f \in DOMAIN files : ts[t].result_file = ResultPath(f)}
           results == [t \in with_result |->
                         files[CHOOSE f \in DOMAIN files : ts[t].result_file = ResultPath(f)]]
           progress == get_progress(q)
       IN [status |-> final_status(progress.completed, progress.failed),
           main_task_id |-> q.main_task_id,
           progress |-> progress,
           results |-> results,
           summary |-> generate_summary(results)]

NoObs == [kind |-> "none"]

NoCall == [op |-> "none"]

QueueIdle ==
  /\ q_file = NoFile
  /\ q_results = << >>
  /\ wk = << >>
  /\ q_calls = 0
  /\ obs = [kind |-> "idle"]

QueueInit ==
  /\ q_file = NoFile
  /\ q_results = << >>
  /\ wk = [w \in Workers |->
             [pc |-> "idle", call |-> NoCall, snap |-> "none",
              found |-> "unknown"]]
  /\ q_calls = 0
  /\ obs = NoObs

\* lines 303-316, called by execute() (line 464): the queue file is written
CreateQueue(ts) ==
  /\ q_file.kind = "absent"
  /\ q_file' = create_queue("main", ts, build_dag(ts))
  /\ UNCHANGED <<q_results, wk, q_calls, obs>>

\* lines 325-326: a worker calls update_task_status(task_id, status) and
\* reads the queue
UtsRead(w, task_id, new_status) ==
  /\ wk[w].pc = "idle"
  /\ q_calls < MaxCalls
  /\ q_calls' = q_calls + 1
  /\ wk' = [wk EXCEPT ![w] =
              [pc |-> "write",
               call |-> [op |-> "update_task_status", task_id |-> task_id,
                         status |-> new_status, kwargs |-> NoKwargs],
               snap |-> read_queue(q_file), found |-> "unknown"]]
  /\ UNCHANGED <<q_file, q_results, obs>>

\* lines 327-332: the record is changed in the dict read before and the whole
\* dict is written back; nothing is written for a task_id the dict lacks
UtsWrite(w) ==
  /\ wk[w].pc = "write"
  /\ LET c == wk[w].call
         q == wk[w].snap
     IN IF c.task_id \in DOMAIN TasksOf(q)
        THEN /\ q_file' = UpdatedQueue(q, c.task_id, c.status, c.kwargs)
             /\ wk' = [wk EXCEPT ![w].pc = "idle", ![w].snap = "none",
                                 ![w].found = "yes"]
        ELSE /\ wk' = [wk EXCEPT ![w].pc = "idle", ![w].snap = "none",
                                 ![w].found = "no"]
             /\ q_file' = q_file
  /\ UNCHANGED <<q_results, q_calls, obs>>

\* lines 373-387: a worker calls save_result(task_id, worker_id, ...); the
\* result file is written
SaveResultFile(w, task_id) ==
  /\ wk[w].pc = "idle"
  /\ q_calls < MaxCalls
  /\ q_calls' = q_calls + 1
  /\ q_results' = [f \in DOMAIN q_results \cup {task_id} |->
                     IF f = task_id THEN ResultDict(task_id, w) ELSE q_results[f]]
  /\ wk' = [wk EXCEPT ![w] =
              [pc |-> "save_read",
               call |-> [op |-> "save_result", task_id |-> task_id,
                         status |-> "completed",
                         kwargs |-> SaveKwargs(task_id, w)],
               snap |-> "none", found |-> "unknown"]]
  /\ UNCHANGED <<q_file, obs>>

\* lines 389-395, 326: save_result calls update_task_status, which reads the
\* queue
SaveRead(w) ==
  /\ wk[w].pc = "save_read"
  /\ wk' = [wk EXCEPT ![w].pc = "write", ![w].snap = read_queue(q_file)]
  /\ UNCHANGED <<q_file, q_results, q_calls, obs>>

\* lines 327-331: update_task_status after its read, up to the open for
\* writing.  The exception of the read leaves the call; a task_id the dict
\* lacks ends it; otherwise the record is changed in the dict and
\* open(queue_path, 'w') empties the file
UtsOpen(w) ==
  /\ wk[w].pc = "write"
  /\ LET c == wk[w].call
         q == wk[w].snap
     IN IF q.kind = "raised"
        THEN /\ wk' = [wk EXCEPT ![w].pc = "idle", ![w].snap = "none",
                                 ![w].found = "raised"]
             /\ q_file' = q_file
        ELSE IF c.task_id \in DOMAIN TasksOf(q)
        THEN /\ q_file' = PartialFile
             /\ wk' = [wk EXCEPT ![w].pc = "dump",
                                 ![w].snap = UpdatedQueue(q, c.task_id, c.status, c.kwargs),
                                 ![w].found = "yes"]
        ELSE /\ wk' = [wk EXCEPT ![w].pc = "idle", ![w].snap = "none",
                                 ![w].found = "no"]
             /\ q_file' = q_file
  /\ UNCHANGED <<q_results, q_calls, obs>>

\* line 332: json.dump writes the changed dict and the file is closed
UtsDump(w) ==
  /\ wk[w].pc = "dump"
  /\ q_file' = wk[w].snap
  /\ wk' = [wk EXCEPT ![w].pc = "idle", ![w].snap = "none"]
  /\ UNCHANGED <<q_results, q_calls, obs>>

-----------------------------------------------------------------------------
(* orchestrator.py: the calls that only read the queue, applied to the      *)
(* files the writing calls can leave behind                                *)

TaskStatuses == {"pending", "running", "completed", "failed"}

\* what the writing calls can have made of one task: its status, whether a
\* save_result has filled in its record, whether its result file exists
TaskStates ==
  {st \in [status : TaskStatuses, saved : BOOLEAN, file : BOOLEAN] :
     st.saved => st.file}

StoredTask(task, st) ==
  UpdatedTask(task, st.status,
              IF st.saved THEN SaveKwargs(task.task_id, "worker_a") ELSE NoKwargs)

\* the queue files: create_queue's output with every task in one of its states
StoredQueue(ts, sts) ==
  LET q == create_queue("main", ts, build_dag(ts))
  IN [q EXCEPT !.tasks = [id \in DOMAIN q.tasks |-> StoredTask(q.tasks[id], sts[id])]]

StoredResults(sts) ==
  [id \in {i \in DOMAIN sts : sts[i].file} |-> ResultDict(id, "worker_a")]

QueryInit ==
  /\ \/ /\ q_file = NoFile
        /\ q_results \in {<< >>, StoredResults(<<[file |-> TRUE]>>)}
     \/ \E ts \in QueryInputs : \E sts \in [1..Len(ts) -> TaskStates] :
          /\ q_file = StoredQueue(ts, sts)
          /\ q_results = StoredResults(sts)
  /\ wk = << >>
  /\ q_calls = 0
  /\ obs = NoObs

\* what a read-only call leaves in obs: its name, what it returned, the files
\* it found and, as a list of one item, what the call before returned when
\* that was the same call
Observed(op, ret) ==
  [kind |-> op, ret |-> ret, seen |-> <<q_file, q_results>>,
   prev |-> IF obs.kind = op THEN <<obs.ret>> ELSE <<>>]

\* lines 355-371
GetProgress ==
  /\ obs' = Observed("get_progress",
                     Propagate(read_queue(q_file), get_progress(read_queue(q_file))))
  /\ UNCHANGED <<q_file, q_results, wk, q_calls>>

\* lines 334-353
GetReadyTasks ==
  /\ obs' = Observed("get_ready_tasks",
                     Propagate(read_queue(q_file),
                               get_ready_tasks(read_queue(q_file))))
  /\ UNCHANGED <<q_file, q_results, wk, q_calls>>

\* lines 397-422
AggregateResultsConsuming ==
  /\ obs' = Observed("aggregate_results",
                     Propagate(read_queue(q_file),
                               aggregate_results(read_queue(q_file), q_results)))
  /\ q_results' = << >>
  /\ UNCHANGED <<q_file, wk, q_calls>>

AggregateResults ==
  /\ obs' = Observed("aggregate_results",
                     Propagate(read_queue(q_file),
                               aggregate_results(read_queue(q_file), q_results)))
  /\ UNCHANGED <<q_file, q_results, wk, q_calls>>

-----------------------------------------------------------------------------
(* The while loops of the two schedulers, one iteration per step: first     *)
(* get_execution_order on the dag, then build_execution_order on the same  *)
(* tasks                                                                   *)

\* number of tasks of a loop input
LoopTasks == 2

\* the dependency lists: any ids among the tasks' and one id that names no task
LoopInputs == [1..LoopTasks -> SUBSET (1..(LoopTasks + 1))]

LoopIdle ==
  /\ lp_dag = [n \in {} |-> {}]
  /\ lp_pc = "idle"
  /\ lp_remaining = {}
  /\ lp_in_degree = [n \in {} |-> 0]
  /\ lp_completed = {}
  /\ lp_levels = <<>>
  /\ lp_geo = <<>>

LoopInit ==
  /\ lp_dag \in LoopInputs
  /\ lp_pc = "call_geo"
  /\ lp_remaining = {}
  /\ lp_in_degree = [n \in {} |-> 0]
  /\ lp_completed = {}
  /\ lp_levels = <<>>
  /\ lp_geo = <<>>

\* orchestrator.py lines 278-288: in_degree, levels = [], remaining = the keys
GeoEnter ==
  /\ lp_pc = "call_geo"
  /\ lp_in_degree' = InDegreeInit(lp_dag)
  /\ lp_remaining' = DOMAIN lp_dag
  /\ lp_levels' = <<>>
  /\ lp_pc' = "geo_loop"
  /\ UNCHANGED <<lp_dag, lp_completed, lp_geo>>

\* orchestrator.py line 296 (remaining -= set(ready)) and workflow_runner.py
\* line 135 (remaining.discard for every ready task)
RemainingKept(remaining, ready) == remaining

RemainingAfter(remaining, ready) == remaining \ ready

\* orchestrator.py lines 290-299: an iteration that finds ready nodes
GeoIterate ==
  /\ lp_pc = "geo_loop"
  /\ lp_remaining # {}
  /\ \E ready \in {GeoReady(lp_in_degree, lp_remaining)} :
       /\ ready # {}
       /\ lp_levels' = Append(lp_levels, ready)
       /\ lp_remaining' = RemainingAfter(lp_remaining, ready)
       /\ lp_in_degree' = GeoUpdate(lp_dag, lp_in_degree, lp_remaining')
  /\ UNCHANGED <<lp_dag, lp_pc, lp_completed, lp_geo>>

\* orchestrator.py lines 290-293, 301: remaining is empty, or no node is
\* ready and the loop breaks; levels is returned
GeoReturn ==
  /\ lp_pc = "geo_loop"
  /\ lp_remaining = {} \/ GeoReady(lp_in_degree, lp_remaining) = {}
  /\ lp_geo' = lp_levels
  /\ lp_pc' = "call_beo"
  /\ UNCHANGED <<lp_dag, lp_remaining, lp_in_degree, lp_completed, lp_levels>>

\* workflow_runner.py lines 117-120
BeoEnter ==
  /\ lp_pc = "call_beo"
  /\ lp_completed' = {}
  /\ lp_levels' = <<>>
  /\ lp_remaining' = DOMAIN lp_dag
  /\ lp_pc' = "beo_loop"
  /\ UNCHANGED <<lp_dag, lp_in_degree, lp_geo>>

\* workflow_runner.py lines 122-135: an iteration that finds ready tasks
BeoIterate ==
  /\ lp_pc = "beo_loop"
  /\ lp_remaining # {}
  /\ \E ready \in {BeoReady(lp_dag, lp_completed, lp_remaining)} :
       /\ ready # {}
       /\ lp_levels' = Append(lp_levels, ready)
       /\ lp_completed' = lp_completed \cup ready
       /\ lp_remaining' = RemainingAfter(lp_remaining, ready)
  /\ UNCHANGED <<lp_dag, lp_pc, lp_in_degree, lp_geo>>

\* workflow_runner.py lines 122, 129-130, 137
BeoReturn ==
  /\ lp_pc = "beo_loop"
  /\ lp_remaining = {} \/ BeoReady(lp_dag, lp_completed, lp_remaining) = {}
  /\ lp_pc' = "returned"
  /\ UNCHANGED <<lp_dag, lp_remaining, lp_in_degree, lp_completed, lp_levels,
                 lp_geo>>

-----------------------------------------------------------------------------
(* autonomous_agent.py: execute_task.  What _execute_step and the web       *)
(* search return is the executor's answer, any of them at every call.      *)

\* largest number of steps of a task
MaxSteps == 2

\* line 1015: the repairs tried on a step before the web search
LocalRetries == 3

\* lines 750-751: set in __init__ and assigned nowhere else
auto_mode == TRUE
silent_mode == TRUE

\* lines 780, 833, 911: a step as create_task makes it
NewStep == [status |-> "pending", retry_count |-> 0]

AgentIdle ==
  /\ ag_steps = <<>>
  /\ ag_current = 0
  /\ ag_status = "idle"
  /\ ag_pc = "idle"
  /\ ag_ret = "none"

\* lines 754-768: a task created with its steps, status PENDING
AgentInit ==
  /\ ag_steps \in {[i \in 1..n |-> NewStep] : n \in 1..MaxSteps}
  /\ ag_current = 0
  /\ ag_status = "pending"
  /\ ag_pc = "created"
  /\ ag_ret = "none"

\* lines 975-980
ExecuteTask ==
  /\ ag_pc = "created"
  /\ ag_status' = "in_progress"
  /\ ag_pc' = "loop"
  /\ UNCHANGED <<ag_steps, ag_current, ag_ret>>

\* lines 986-1011: the step at current_step is executed
RunStep(success) ==
  /\ ag_pc = "loop"
  /\ ag_current < Len(ag_steps)
  /\ IF success
     THEN /\ ag_steps' = [ag_steps EXCEPT ![ag_current + 1].status = "completed"]
          /\ ag_current' = ag_current + 1
          /\ ag_pc' = "loop"
     ELSE /\ ag_steps' = [ag_steps EXCEPT ![ag_current + 1].status = "failed"]
          /\ ag_current' = ag_current
          /\ ag_pc' = "step_failed"
  /\ UNCHANGED <<ag_status, ag_ret>>

\* lines 1056-1064: the step was not repaired; st is task.status at that point
GiveUp(st) ==
  IF auto_mode /\ silent_mode
  THEN [current |-> ag_current + 1, pc |-> "loop", status |-> st, ret |-> ag_ret]
  ELSE [current |-> ag_current, pc |-> "returned", status |-> "failed",
        ret |-> "failure"]

\* lines 1013-1041: fewer than 3 repairs so far.  adapt_plan_on_failure
\* always returns at least the copy of the failed step (lines 726-730);
\* fix_success is whether one of the fix steps succeeded
LocalRepair(fix_success) ==
  /\ ag_pc = "step_failed"
  /\ ag_steps[ag_current + 1].retry_count < LocalRetries
  /\ IF fix_success
     THEN /\ ag_steps' = [ag_steps EXCEPT
                            ![ag_current + 1].retry_count = @ + 1,
                            ![ag_current + 1].status = "pending"]
          /\ ag_current' = ag_current
          /\ ag_pc' = "loop"
          /\ ag_status' = "retrying"
          /\ ag_ret' = ag_ret
     ELSE /\ ag_steps' = [ag_steps EXCEPT ![ag_current + 1].retry_count = @ + 1]
          /\ ag_current' = GiveUp("retrying").current
          /\ ag_pc' = GiveUp("retrying").pc
          /\ ag_status' = GiveUp("retrying").status
          /\ ag_ret' = GiveUp("retrying").ret

\* lines 1043-1054: 3 repairs were made.  web_fix is whether the search
\* gave a step to try, web_success whether that step succeeded
WebRepair(web_fix, web_success) ==
  /\ ag_pc = "step_failed"
  /\ ag_steps[ag_current + 1].retry_count >= LocalRetries
  /\ IF web_fix /\ web_success
     THEN /\ ag_steps' = [ag_steps EXCEPT
                            ![ag_current + 1].retry_count = 0,
                            ![ag_current + 1].status = "pending"]
          /\ ag_current' = ag_current
          /\ ag_pc' = "loop"
          /\ ag_status' = ag_status
          /\ ag_ret' = ag_ret
     ELSE /\ ag_steps' = ag_steps
          /\ ag_current' = GiveUp(ag_status).current
          /\ ag_pc' = GiveUp(ag_status).pc
          /\ ag_status' = GiveUp(ag_status).status
          /\ ag_ret' = GiveUp(ag_status).ret

\* lines 986, 1066-1096: no step is left; the task is set COMPLETED and a
\* successful ActionResult is returned
FinishTask ==
  /\ ag_pc = "loop"
  /\ ag_current = Len(ag_steps)
  /\ ag_status' = "completed"
  /\ ag_pc' = "returned"
  /\ ag_ret' = "success"
  /\ UNCHANGED <<ag_steps, ag_current>>

-----------------------------------------------------------------------------
(* workflow_manager.py and workflow_manager_v2.py: execute_workflow.  What *)
(* _execute_step does with a step is the step's answer: it returns a dict  *)
(* with status success or error, or an exception leaves it.                *)

\* largest number of steps of a workflow
MaxWfSteps == 2

\* what a step's on_failure key holds: absent, continue, or something else
OnFailureValues == {"none", "continue", "other"}

WfIdle ==
  /\ wf_version = "none"
  /\ wf_file = "none"
  /\ wf_steps = <<>>
  /\ wf_called = <<>>
  /\ wf_results = <<>>
  /\ wf_pc = "idle"
  /\ wf_ret = NoRet

WfInit ==
  /\ wf_version \in {"v1", "v2"}
  /\ wf_file \in {"absent", "unreadable", "ok"}
  /\ wf_steps \in UNION {[1..n -> [on_failure : OnFailureValues]] : n \in 0..MaxWfSteps}
  /\ wf_called = <<>>
  /\ wf_results = <<>>
  /\ wf_pc = "called"
  /\ wf_ret = NoRet

\* workflow_manager.py 96-104, workflow_manager_v2.py 234-242: the file is
\* looked up and parsed
OpenWorkflow ==
  /\ wf_pc = "called"
  /\ IF wf_file = "ok"
     THEN wf_pc' = "loop" /\ wf_ret' = wf_ret
     ELSE wf_pc' = "returned" /\ wf_ret' = [kind |-> "returned", status |-> "error"]
  /\ UNCHANGED <<wf_version, wf_file, wf_steps, wf_called, wf_results>>

\* workflow_manager_v2.py 269; workflow_manager.py has no such test
ContinuesInV1Too(version, step) == step.on_failure = "continue"

Continues(version, step) == version = "v2" /\ step.on_failure = "continue"

\* workflow_manager.py 111-124, workflow_manager_v2.py 253-284: one turn of
\* the for loop over the steps
ExecuteStep(outcome) ==
  /\ wf_pc = "loop"
  /\ Len(wf_called) < Len(wf_steps)
  /\ LET i == Len(wf_called) + 1
         res == Append(wf_results, [step |-> i, status |-> outcome])
     IN /\ wf_called' = Append(wf_called, i)
        /\ IF outcome = "raised"
           THEN /\ wf_results' = wf_results
                /\ wf_pc' = "raised"
                /\ wf_ret' = wf_ret
           ELSE /\ wf_results' = res
                /\ IF outcome = "error" /\ ~Continues(wf_version, wf_steps[i])
                   THEN /\ wf_pc' = "returned"
                        /\ wf_ret' = [kind |-> "returned", status |-> "error",
                                      step_results |-> res]
                   ELSE /\ wf_pc' = "loop"
                        /\ wf_ret' = wf_ret
  /\ UNCHANGED <<wf_version, wf_file, wf_steps>>

\* workflow_manager.py 126-130, workflow_manager_v2.py 290-295: the loop ran
\* out of steps
WorkflowDone ==
  /\ wf_pc = "loop"
  /\ Len(wf_called) = Len(wf_steps)
  /\ wf_pc' = "returned"
  /\ wf_ret' = [kind |-> "returned", status |-> "success", results |-> wf_results]
  /\ UNCHANGED <<wf_version, wf_file, wf_steps, wf_called, wf_results>>

-----------------------------------------------------------------------------
(* Specifications *)

SchedNext ==
  \/ CallGetExecutionOrder /\ UNCHANGED notSched
  \/ CallBuildExecutionOrder /\ UNCHANGED notSched

SchedSpecInit ==
  SchedInit /\ ExecIdle /\ OrchIdle /\ QueueIdle /\ LoopIdle /\ AgentIdle
  /\ WfIdle

SchedSpec == SchedSpecInit /\ [][SchedNext]_vars

ExecNext ==
  \/ ExecStart /\ UNCHANGED notExec
  \/ \E t \in DOMAIN ex_tasks : Submit(t) /\ UNCHANGED notExec
  \/ \E t \in DOMAIN ex_tasks : WorkerStart(t) /\ UNCHANGED notExec
  \/ \E t \in DOMAIN ex_tasks : WorkerReturn(t) /\ UNCHANGED notExec
  \/ \E t \in DOMAIN ex_tasks : WorkerRaise(t) /\ UNCHANGED notExec
  \/ \E t \in DOMAIN ex_tasks : Collect(t) /\ UNCHANGED notExec
  \/ NextLevel /\ UNCHANGED notExec
  \/ Return /\ UNCHANGED notExec

ExecSpecInit ==
  ExecInit /\ SchedIdle /\ OrchIdle /\ QueueIdle /\ LoopIdle /\ AgentIdle
  /\ WfIdle

ExecSpec == ExecSpecInit /\ [][ExecNext]_vars

OrchNext ==
  \/ Execute /\ UNCHANGED notOrch
  \/ CallDecompose /\ UNCHANGED notOrch
  \/ CallRunnerDecompose /\ UNCHANGED notOrch
  \/ CallAnalyzeComplexity /\ UNCHANGED notOrch
  \/ RunSwarmWorkflow /\ UNCHANGED notOrch

OrchSpecInit ==
  OrchInit /\ SchedIdle /\ ExecIdle /\ QueueIdle /\ LoopIdle /\ AgentIdle
  /\ WfIdle

OrchSpec == OrchSpecInit /\ [][OrchNext]_vars

QueueNext ==
  \/ \E ts \in QueueInputs : CreateQueue(ts) /\ UNCHANGED notQueue
  \/ \E w \in Workers : \E t \in 1..QueueTasks : \E s \in {"running", "failed"} :
       UtsRead(w, t, s) /\ UNCHANGED notQueue
  \/ \E w \in Workers : UtsWrite(w) /\ UNCHANGED notQueue
  \/ \E w \in Workers : \E t \in 1..QueueTasks :
       SaveResultFile(w, t) /\ UNCHANGED notQueue
  \/ \E w \in Workers : SaveRead(w) /\ UNCHANGED notQueue

QueueSpecInit ==
  QueueInit /\ SchedIdle /\ ExecIdle /\ OrchIdle /\ LoopIdle /\ AgentIdle
  /\ WfIdle

QueueSpec == QueueSpecInit /\ [][QueueNext]_vars

QueryNext ==
  \/ GetProgress /\ UNCHANGED notQueue
  \/ GetReadyTasks /\ UNCHANGED notQueue
  \/ AggregateResults /\ UNCHANGED notQueue

QuerySpecInit ==
  QueryInit /\ SchedIdle /\ ExecIdle /\ OrchIdle /\ LoopIdle /\ AgentIdle
  /\ WfIdle

QuerySpec == QuerySpecInit /\ [][QueryNext]_vars

\* the writing calls with the write of the file in its two steps, and one
\* read-only call made at any moment
TornNext ==
  \/ \E ts \in QueueInputs : CreateQueue(ts) /\ UNCHANGED notQueue
  \/ \E w \in Workers : \E t \in 1..QueueTasks : \E s \in {"running", "failed"} :
       UtsRead(w, t, s) /\ UNCHANGED notQueue
  \/ \E w \in Workers : UtsOpen(w) /\ UNCHANGED notQueue
  \/ \E w \in Workers : UtsDump(w) /\ UNCHANGED notQueue
  \/ \E w \in Workers : \E t \in 1..QueueTasks :
       SaveResultFile(w, t) /\ UNCHANGED notQueue
  \/ \E w \in Workers : SaveRead(w) /\ UNCHANGED notQueue
  \/ obs = NoObs /\ GetProgress /\ UNCHANGED notQueue
  \/ obs = NoObs /\ GetReadyTasks /\ UNCHANGED notQueue
  \/ obs = NoObs /\ AggregateResults /\ UNCHANGED notQueue

TornSpec == QueueSpecInit /\ [][TornNext]_vars

LoopNext ==
  \/ GeoEnter /\ UNCHANGED notLoop
  \/ GeoIterate /\ UNCHANGED notLoop
  \/ GeoReturn /\ UNCHANGED notLoop
  \/ BeoEnter /\ UNCHANGED notLoop
  \/ BeoIterate /\ UNCHANGED notLoop
  \/ BeoReturn /\ UNCHANGED notLoop

LoopSpecInit ==
  LoopInit /\ SchedIdle /\ ExecIdle /\ OrchIdle /\ QueueIdle /\ AgentIdle
  /\ WfIdle

\* each scheduler runs in the one thread that called it, which takes its next
\* step as long as it has one
LoopFairSpec == LoopSpecInit /\ [][LoopNext]_vars /\ WF_vars(LoopNext)

AgentNext ==
  \/ ExecuteTask /\ UNCHANGED notAgent
  \/ \E success \in BOOLEAN : RunStep(success) /\ UNCHANGED notAgent
  \/ \E fix_success \in BOOLEAN : LocalRepair(fix_success) /\ UNCHANGED notAgent
  \/ \E web_fix, web_success \in BOOLEAN :
       WebRepair(web_fix, web_success) /\ UNCHANGED notAgent
  \/ FinishTask /\ UNCHANGED notAgent

AgentSpecInit ==
  AgentInit /\ SchedIdle /\ ExecIdle /\ OrchIdle /\ QueueIdle /\ LoopIdle
  /\ WfIdle

\* execute_task runs in the thread that called it, which takes its next step
\* as long as it has one; what the executor answers is not constrained
AgentFairSpec == AgentSpecInit /\ [][AgentNext]_vars /\ WF_vars(AgentNext)

WfNext ==
  \/ OpenWorkflow /\ UNCHANGED notWf
  \/ \E outcome \in {"success", "error", "raised"} :
       ExecuteStep(outcome) /\ UNCHANGED notWf
  \/ WorkflowDone /\ UNCHANGED notWf

WfSpecInit ==
  WfInit /\ SchedIdle /\ ExecIdle /\ OrchIdle /\ QueueIdle /\ LoopIdle
  /\ AgentIdle

WfSpec == WfSpecInit /\ [][WfNext]_vars

-----------------------------------------------------------------------------
(* Properties of the level schedulers, checked under SchedSpec *)

\* every task id is in exactly one level
CoversOnce(t, lv) ==
  \A n \in DOMAIN t : Cardinality({k \in 1..Len(lv) : n \in lv[k]}) = 1

\* every dependency id of a task of level k is in a level before k
DepsEarlier(t, lv) ==
  \A k \in 1..Len(lv) : \A n \in lv[k] : t[n] \subseteq Before(lv, k)

C2_CycleReported ==
  HasCycle(tasks) =>
    /\ geo_ret.kind \in {"none", "cycle_error"}
    /\ beo_ret.kind \in {"none", "cycle_error"}

\* a level list is maximally parallel: a task not yet scheduled whose
\* dependency ids all lie in earlier levels is in the next level (so no such
\* task is left when the list ends), and a task of a level after the first
\* has a dependency in the level just before
MaxParallel(t, lv) ==
  /\ \A k \in 1..(Len(lv) + 1) :
       \A n \in DOMAIN t \ Before(lv, k) :
         t[n] \subseteq Before(lv, k) => (k <= Len(lv) /\ n \in lv[k])
  /\ \A k \in 2..Len(lv) : \A n \in lv[k] : t[n] \cap lv[k-1] # {}

\* C10: the schedule is maximally parallel, for every input (cyclic and
\* dangling ones included): level k holds every not yet scheduled task whose
\* dependencies all lie in levels before k, and for k > 1 every task of level
\* k has a dependency in level k-1.
C10_MaximallyParallel ==
  /\ geo_ret.kind = "levels" => MaxParallel(tasks, geo_ret.levels)
  /\ beo_ret.kind = "levels" => MaxParallel(tasks, beo_ret.levels)

C10_Witness ==
  /\ sched_pc = "done"
  /\ \E k \in 2..Len(geo_ret.levels) :
       Cardinality(geo_ret.levels[k]) >= 2 /\ geo_ret.levels = beo_ret.levels

\* the task set with every dangling dependency id left out
InGraph(t) == [n \in DOMAIN t |-> t[n] \cap DOMAIN t]

\* C11: a dependency id that names no task of the graph counts as satisfied:
\* for a task set whose in-graph dependencies are acyclic, a scheduler returns
\* a level list that holds every task exactly once, each task after its
\* in-graph dependencies, whether or not tasks list dangling ids.
C11_DanglingSatisfied ==
  ~HasCycle(tasks) =>
    /\ geo_ret.kind = "levels" =>
         /\ CoversOnce(tasks, geo_ret.levels)
         /\ DepsEarlier(InGraph(tasks), geo_ret.levels)
    /\ beo_ret.kind = "levels" =>
         /\ CoversOnce(tasks, beo_ret.levels)
         /\ DepsEarlier(InGraph(tasks), beo_ret.levels)

\* C30: for every task set (acyclic, cyclic, with dangling dependency ids)
\* get_execution_order(build_dag(tasks)) and build_execution_order(tasks)
\* return the same sequence of levels, each level taken as a set of task ids.
C30_SchedulersEquivalent ==
  (geo_ret.kind = "levels" /\ beo_ret.kind = "levels") =>
    geo_ret.levels = beo_ret.levels

\* C26: on every dependency map (with cycles, self-dependencies, dangling
\* ids) each scheduler loop ends: every iteration that does not leave the
\* loop takes at least one task out of remaining, so there are never more
\* levels than tasks taken out, and both calls return.
C26_SchedulerTerminates ==
  /\ [](lp_pc \in {"geo_loop", "beo_loop"} =>
         Len(lp_levels) + Cardinality(lp_remaining) <= Cardinality(DOMAIN lp_dag))
  /\ <>(lp_pc = "returned")

C26_Witness ==
  /\ lp_pc = "returned"
  /\ \E n \in DOMAIN lp_dag : n \in lp_dag[n]
  /\ \E n \in DOMAIN lp_dag : n \in TransDeps(lp_dag, n) /\ n \notin lp_dag[n]
  /\ \E n \in DOMAIN lp_dag : ~(lp_dag[n] \subseteq DOMAIN lp_dag)

-----------------------------------------------------------------------------
(* Properties of execute_parallel, checked under ExecSpec *)

\* C3: no task of level k+1 is dispatched (submitted, hence running) before
\* every task of level k has its terminal status.
C3_LevelBarrier ==
  \A k \in 1..(Len(levels) - 1) :
    \A t \in levels[k+1] :
      (fut[t] # "none" \/ status[t] # "pending") =>
        \A u \in levels[k] : status[u] \in Terminal

C3_Witness ==
  \E k \in 1..(Len(levels) - 1) :
    /\ Cardinality(levels[k]) >= 2
    /\ \E t \in levels[k+1] : fut[t] = "running"

\* C4: a task that has started has all its transitive dependencies terminated.
C4_DepsTerminatedBeforeStart ==
  \A t \in DOMAIN ex_tasks :
    (fut[t] \notin {"none", "queued"} \/ status[t] # "pending") =>
      \A d \in TransDeps(ex_tasks, t) : status[d] \in Terminal

C4_Witness ==
  \E t \in DOMAIN ex_tasks :
    /\ fut[t] = "running"
    /\ Cardinality(ex_tasks[t]) >= 2
    /\ \E d \in ex_tasks[t] : ex_tasks[d] # {}

\* C5: when task a ended failed and task d lists a as a dependency, d is never
\* started and stays pending; the final status (as aggregate_results derives
\* it from the tasks' statuses) is failed when nothing completed and partial
\* when a sibling completed.
C5_FailedDependencyBlocks ==
  /\ \A a, d \in DOMAIN ex_tasks :
       (status[a] = "failed" /\ a \in ex_tasks[d]) =>
         (status[d] = "pending" /\ fut[d] = "none")
  /\ (ex_pc = "returned" /\ Count(status, "failed") > 0) =>
       final_status(Count(status, "completed"), Count(status, "failed"))
         = IF Count(status, "completed") > 0 THEN "partial" ELSE "failed"

\* C6: a step that raises is recorded for its own task only (status failed,
\* an error entry) and never leaves the engine: the engine can always take
\* its next step until it has returned, every task dispatched has then its
\* own terminal outcome, and the summary counts them.
C6_FailureIsolated ==
  /\ ex_pc \in {"idle", "call", "submit", "collect", "returned"}
  /\ \A t \in DOMAIN ex_tasks :
       IF t \in harvested
       THEN /\ fut[t] = "raised" => status[t] = "failed" /\ all_results[t] = "error"
            /\ fut[t] = "ok" => status[t] = "completed" /\ all_results[t] = "result"
       ELSE status[t] \notin Terminal /\ all_results[t] = "none"
  /\ ex_pc \in {"call", "submit", "collect"} => ENABLED ExecNext
  /\ ex_pc = "returned" =>
       /\ \A t \in Scheduled(levels) : t \in harvested
       /\ summary.completed = Cardinality({t \in harvested : fut[t] = "ok"})
       /\ summary.failed = Cardinality({t \in harvested : fut[t] = "raised"})

C6_Witness ==
  /\ ex_pc = "returned"
  /\ \E k \in 1..Len(levels) : \E a, b \in levels[k] :
       status[a] = "failed" /\ status[b] = "completed"

\* C12: for A, B (after A), C (after A), D (after B and C) both schedulers
\* return exactly the levels [{A}, {B, C}, {D}], and in every interleaving of
\* an execution with max_workers = 2 the steps of B and C have ended and
\* their outcomes are recorded (completed, for a step that returned) before D
\* is submitted or started.
C12_DiamondLevelsAndOrder ==
  (ex_tasks = Diamond /\ ex_pc # "call") =>
    /\ levels = DiamondLevels
    /\ get_execution_order(ex_tasks) = DiamondLevels
    /\ (max_workers = 2 /\ (fut[4] # "none" \/ status[4] # "pending")) =>
         \A u \in {2, 3} :
           /\ fut[u] \in {"ok", "raised"}
           /\ status[u] \in Terminal
           /\ fut[u] = "ok" => status[u] = "completed"

C12_Witness ==
  /\ ex_tasks = Diamond
  /\ max_workers = 2
  /\ fut[4] = "running"
  /\ status[2] = "completed" /\ status[3] = "completed"

\* the tasks whose step a pool worker is executing
Executing == {t \in DOMAIN fut : fut[t] = "running"}

\* C20 as stated: the number of tasks whose status is running never exceeds
\* max_workers while execute_parallel runs.
C20_StatusRunningBounded ==
  ex_pc \in {"call", "submit", "collect", "returned"} =>
    Count(status, "running") <= max_workers

\* C20, amended: at no instant do more than max_workers tasks have their step
\* executed by the pool; the status field of a task stays running from the
\* start of its step until the main thread has taken its future from
\* as_completed, so the tasks with status running are the executing ones
\* and the finished, not yet harvested ones of the current level.
C20_AtMostMaxWorkersExecuting ==
  ex_pc \in {"call", "submit", "collect", "returned"} =>
    /\ Cardinality(Executing) <= max_workers
    /\ {t \in DOMAIN status : status[t] = "running"}
         = {t \in DOMAIN fut : fut[t] \in {"running", "ok", "raised"}} \ harvested
    /\ \A t \in DOMAIN status :
         status[t] = "running" => level_idx >= 1 /\ t \in levels[level_idx]

C20_Witness ==
  /\ max_workers >= 2
  /\ Cardinality(Executing) = max_workers
  /\ \E t \in DOMAIN fut : fut[t] = "queued"

\* C31: when execute_parallel returns, whatever the task list, every task is
\* completed or failed, results has one entry per task, and completed plus
\* failed is total_tasks.
C31_SummaryAccountsForAll ==
  ex_pc = "returned" =>
    /\ \A t \in DOMAIN ex_tasks : status[t] \in Terminal
    /\ summary.results = DOMAIN ex_tasks
    /\ summary.completed + summary.failed = summary.total_tasks

-----------------------------------------------------------------------------
(* Properties of the decomposers and of execute(), checked under OrchSpec *)

\* every dependency id of a task is the task_id of an earlier task of the list
DepsReferEarlier(ts) ==
  \A i \in 1..Len(ts) : \A d \in ts[i].dependencies :
    \E j \in 1..(i - 1) : ts[j].task_id = d

\* C7: for every analysis decompose_task returns a list of tasks in which
\* every dependency id is the task_id of an earlier task of the list.
C7_DecomposeOrdered ==
  /\ decomp_ret.kind \in {"returned", "raised"} =>
       decomp_ret.kind = "returned" /\ DepsReferEarlier(decomp_ret.tasks)
  /\ wr_ret.kind = "returned" => DepsReferEarlier(wr_ret.tasks)

\* 开发 架构 系统 重构
Request8 == Join(<<kw_kaifa, kw_jiagou, kw_xitong, kw_chonggou>>)

\* C8: for the request "开发 架构 系统 重构" the analysis is complex with
\* swarm_mode true, the decomposition has 6 tasks, and execute() returns the
\* ready result with a queue of 6 tasks.
C8_ComplexRequestReady ==
  (user_request = Request8 /\ exec_ret.kind \in {"returned", "raised"}) =>
    /\ exec_ret.analysis.complexity = "complex"
    /\ exec_ret.analysis.swarm_mode
    /\ exec_ret.kind = "returned"
    /\ exec_ret.status = "ready"
    /\ Len(exec_ret.tasks) = 6
    /\ queue.kind = "file"
    /\ Cardinality(DOMAIN queue.tasks) = 6

\* research -> design -> implement -> {test, document} -> review, review
\* depending on implement, test and document
DevelopmentShape(ts) ==
  /\ Len(ts) = 6
  /\ ts[1].dependencies = {}
  /\ ts[2].dependencies = {ts[1].task_id}
  /\ ts[3].dependencies = {ts[2].task_id}
  /\ ts[4].dependencies = {ts[3].task_id}
  /\ ts[5].dependencies = {ts[3].task_id}
  /\ ts[6].dependencies = {ts[3].task_id, ts[4].task_id, ts[5].task_id}

FiveLevels(ts) ==
  << {ts[1].task_id}, {ts[2].task_id}, {ts[3].task_id},
     {ts[4].task_id, ts[5].task_id}, {ts[6].task_id} >>

\* C9: for category development the decomposer returns the six tasks wired
\* research -> design -> implement -> {test, document} -> review, and the
\* schedule of that output is the five levels [research], [design],
\* [implement], [test, document], [review].
C9_DevelopmentWiring ==
  /\ (decomp_ret.kind = "returned" /\ decomp_ret.task_type = "development") =>
       /\ DevelopmentShape(decomp_ret.tasks)
       /\ get_execution_order(build_dag(decomp_ret.tasks))
            = FiveLevels(decomp_ret.tasks)
  /\ wr_ret.kind = "returned" =>
       /\ DevelopmentShape(wr_ret.tasks)
       /\ build_execution_order(build_dag(wr_ret.tasks)) = FiveLevels(wr_ret.tasks)

\* the categories decompose_task has a template for (lines 155, 201, 233)
Templated == {"development", "refactor", "test"}

\* C22: for an analysis whose category is not a templated one, decompose_task
\* returns exactly one task, which has no dependencies and worker_type coder.
C22_UnknownCategorySingleTask ==
  (decomp_ret.kind \in {"returned", "raised"}
     /\ decomp_ret.task_type \notin Templated) =>
    /\ decomp_ret.kind = "returned"
    /\ Len(decomp_ret.tasks) = 1
    /\ decomp_ret.tasks[1].dependencies = {}
    /\ decomp_ret.tasks[1].worker_type = "coder"

C22_Witness ==
  /\ decomp_ret.kind = "returned"
  /\ decomp_ret.task_type = "research"
  /\ Len(decomp_ret.tasks) = 1

\* the terms of the category scan
TestTerm(req) == Contains(kw_ceshi, req)
DocsTerm(req) == Contains(kw_wendang, req)
ResearchTerm(req) == Contains(kw_diaoyan, req) \/ Contains(kw_yanjiu, req)
RefactorTerm(req) == Contains(kw_chonggou, req)

\* C29: the category depends on the terms of the request alone, with the
\* precedence test > docs > research > refactor > development, whatever the
\* complexity score: a request with a test term is test (also when it holds
\* docs or refactor terms), and a request with none of the terms is
\* development.
C29_CategoryPrecedence ==
  exec_ret.kind \in {"returned", "raised"} =>
    LET c == exec_ret.analysis.task_type
        r == user_request
    IN /\ TestTerm(r) => c = "test"
       /\ (~TestTerm(r) /\ DocsTerm(r)) => c = "docs"
       /\ (~TestTerm(r) /\ ~DocsTerm(r) /\ ResearchTerm(r)) => c = "research"
       /\ (~TestTerm(r) /\ ~DocsTerm(r) /\ ~ResearchTerm(r) /\ RefactorTerm(r)) =>
            c = "refactor"
       /\ (~TestTerm(r) /\ ~DocsTerm(r) /\ ~ResearchTerm(r) /\ ~RefactorTerm(r)) =>
            c = "development"

C29_Witness ==
  /\ exec_ret.kind \in {"returned", "raised"}
  /\ TestTerm(user_request) /\ DocsTerm(user_request) /\ RefactorTerm(user_request)
  /\ exec_ret.analysis.task_type = "test"
  /\ exec_ret.analysis.complexity = "complex"

\* C35: when the analyzer's swarm_mode is false, execute() returns the
\* simple_task result and run_swarm_workflow() the simple result, with no
\* tasks, dag, execution order or execution results in it, and the queue
\* file is what it was before the call: absent, or the queue an earlier
\* request left.
C35_SimpleRequestNoSwarm ==
  /\ [](/\ (exec_ret.kind \in {"returned", "raised"}
              /\ ~exec_ret.analysis.swarm_mode) =>
            /\ exec_ret.kind = "returned"
            /\ exec_ret.status = "simple_task"
            /\ DOMAIN exec_ret = {"kind", "status", "analysis"}
        /\ (swarm_ret.kind # "none" /\ ~wr_analysis.analysis.swarm_mode) =>
            /\ swarm_ret.kind = "returned"
            /\ swarm_ret.status = "simple"
            /\ DOMAIN swarm_ret = {"kind", "status"})
  /\ [][(\/ (/\ exec_ret.kind = "none"
               /\ exec_ret'.kind # "none"
               /\ ~exec_ret'.analysis.swarm_mode)
          \/ (/\ swarm_ret.kind = "none"
               /\ swarm_ret'.kind # "none"
               /\ ~wr_analysis.analysis.swarm_mode))
         => queue' = queue]_vars

C35_Witness ==
  /\ exec_ret.kind = "returned"
  /\ exec_ret.status = "simple_task"
  /\ exec_ret.analysis.complexity = "medium"
  /\ swarm_ret.kind = "returned"
  /\ swarm_ret.status = "simple"
  /\ queue = EarlierQueue

-----------------------------------------------------------------------------
(* Properties of the calls that read the queue, checked under QuerySpec *)

\* the number of tasks of queue file f whose status is s
StatusCount(f, s) == Cardinality({t \in DOMAIN f.tasks : f.tasks[t].status = s})

\* C13: the status aggregate_results returns for a queue is success when no
\* task is failed, partial when at least one task is failed and at least one
\* is completed, failed when at least one task is failed and none is
\* completed (every task that has ended has failed).
C13_AggregateStatus ==
  (obs.kind = "aggregate_results" /\ obs.seen[1].kind = "file") =>
    LET failed == StatusCount(obs.seen[1], "failed")
        completed == StatusCount(obs.seen[1], "completed")
    IN /\ failed = 0 => obs.ret.status = "success"
       /\ (failed >= 1 /\ completed >= 1) => obs.ret.status = "partial"
       /\ (failed >= 1 /\ completed = 0) => obs.ret.status = "failed"

C13_Witness ==
  /\ obs.kind = "aggregate_results"
  /\ obs.ret.status = "partial"
  /\ obs.ret.progress.failed >= 1
  /\ obs.ret.progress.completed >= 1

\* C14: aggregate_results leaves the queue file and the result files as it
\* found them, and a call that directly follows another one, nothing having
\* been written in between, returns what that one returned.
C14_AggregateIdempotent ==
  obs.kind = "aggregate_results" =>
    /\ obs.seen = <<q_file, q_results>>
    /\ obs.prev # <<>> => obs.ret = obs.prev[1]

C14_Witness ==
  /\ obs.kind = "aggregate_results"
  /\ obs.prev # <<>>
  /\ DOMAIN obs.ret.results # {}

\* C15: whatever the queue state (no queue file and a queue without tasks
\* included), what get_progress returns holds a progress percentage, which is
\* between 0 and 100, equals completed / total * 100, and is 0 when total is 0.
C15_ProgressPercent ==
  obs.kind = "get_progress" =>
    LET f == obs.seen[1]
        total == IF f.kind = "file" THEN Cardinality(DOMAIN f.tasks) ELSE 0
        completed == IF f.kind = "file" THEN StatusCount(f, "completed") ELSE 0
    IN /\ "progress_percent" \in DOMAIN obs.ret
       /\ 0 <= obs.ret.progress_percent.num
       /\ obs.ret.progress_percent.num <= 100 * obs.ret.progress_percent.den
       /\ total > 0 =>
            obs.ret.progress_percent.num * total
              = completed * 100 * obs.ret.progress_percent.den
       /\ total = 0 => obs.ret.progress_percent.num = 0

\* C18: get_ready_tasks returns exactly the tasks of the queue whose status
\* is pending and whose dependencies all have status completed, each once
\* and as the queue holds it.
C18_ReadyTasksExact ==
  (obs.kind = "get_ready_tasks" /\ obs.seen[1].kind = "file") =>
    LET ts == obs.seen[1].tasks
        returned == {obs.ret[i].task_id : i \in 1..Len(obs.ret)}
    IN /\ \A t \in DOMAIN ts :
            t \in returned <=>
              /\ ts[t].status = "pending"
              /\ \A d \in ts[t].dependencies :
                   d \in DOMAIN ts /\ ts[d].status = "completed"
       /\ returned \subseteq DOMAIN ts
       /\ \A i \in 1..Len(obs.ret) : obs.ret[i] = ts[obs.ret[i].task_id]
       /\ Len(obs.ret) = Cardinality(returned)

C18_Witness ==
  /\ obs.kind = "get_ready_tasks"
  /\ \E i \in 1..Len(obs.ret) : obs.ret[i].dependencies # {}
  /\ \E t \in DOMAIN obs.seen[1].tasks : obs.seen[1].tasks[t].status = "completed"

\* C32: in a queue written by create_queue, whenever the tasks of the levels
\* before level k of execution_order are all completed and the tasks of
\* level k and of the later levels are all pending, get_ready_tasks returns
\* exactly the tasks of level k.
C32_ReadyIsNextLevel ==
  (obs.kind = "get_ready_tasks" /\ obs.seen[1].kind = "file") =>
    LET f == obs.seen[1]
        eo == f.execution_order
        returned == {obs.ret[i].task_id : i \in 1..Len(obs.ret)}
    IN \A k \in 1..Len(eo) :
         (/\ \A t \in Before(eo, k) : f.tasks[t].status = "completed"
          /\ \A t \in Scheduled(eo) \ Before(eo, k) : f.tasks[t].status = "pending")
         => returned = eo[k]

-----------------------------------------------------------------------------
(* Properties of the calls that write the queue, checked under QueueSpec *)

\* C19: when the two workers have each made one call of update_task_status
\* or save_result, for different tasks of the queue, and both calls have
\* returned, the queue holds the status each call wrote.
C19_NoLostUpdate ==
  \A a, b \in Workers :
    (/\ a # b
     /\ q_calls = Cardinality(Workers)
     /\ wk[a].pc = "idle" /\ wk[b].pc = "idle"
     /\ wk[a].found = "yes" /\ wk[b].found = "yes"
     /\ wk[a].call.task_id # wk[b].call.task_id) =>
       /\ q_file.tasks[wk[a].call.task_id].status = wk[a].call.status
       /\ q_file.tasks[wk[b].call.task_id].status = wk[b].call.status

\* the status queue file f holds for task t
StatusIn(f, t) ==
  IF f.kind = "file" /\ t \in DOMAIN f.tasks THEN f.tasks[t].status ELSE "no_task"

\* the steps of the task lifecycle: created pending, pending -> running ->
\* completed or failed, failed -> retrying -> running
Lifecycle ==
  {<<"no_task", "pending">>, <<"pending", "running">>,
   <<"running", "completed">>, <<"running", "failed">>,
   <<"failed", "retrying">>, <<"retrying", "running">>}

\* C23: every change of a task's status in the queue is a step of the
\* lifecycle pending -> running -> {completed, failed} (failed -> retrying ->
\* running under retry): no task becomes completed or failed without having
\* been running.
C23_NoStateSkipped ==
  [][\A t \in 1..QueueTasks :
       \/ StatusIn(q_file', t) = StatusIn(q_file, t)
       \/ <<StatusIn(q_file, t), StatusIn(q_file', t)>> \in Lifecycle]_vars

\* C24: once the queue holds status completed for a task, no later call
\* changes that status.
C24_CompletedIsTerminal ==
  [][\A t \in 1..QueueTasks :
       StatusIn(q_file, t) = "completed" => StatusIn(q_file', t) = "completed"]_vars

\* C28: when a save_result(task_id, worker_id, output) for a task of the
\* queue returns, the queue holds status completed for the task,
\* aggregate_results() returns for it a result whose output is the output
\* the call recorded, and the status of every other task is what it was
\* before the call wrote.
C28_SaveResultRoundTrip ==
  [][\A w \in Workers :
       (/\ wk[w].pc = "write" /\ wk[w].call.op = "save_result"
        /\ wk'[w].pc = "idle" /\ wk'[w].found = "yes") =>
         LET tid == wk[w].call.task_id
             agg == aggregate_results(read_queue(q_file'), q_results')
         IN /\ StatusIn(q_file', tid) = "completed"
            /\ tid \in DOMAIN agg.results
            /\ agg.results[tid].output = ResultDict(tid, w).output
            /\ \A o \in DOMAIN q_file'.tasks \ {tid} :
                 StatusIn(q_file', o) = StatusIn(q_file, o)]_vars

\* C33: in every queue that create_queue followed by calls of
\* update_task_status and save_result leaves, dag has the keys of tasks,
\* dag[id] is the dependencies of task id, and execution_order and
\* main_task_id are what create_queue wrote.
C33_GraphDerivedFromTasks ==
  /\ [](q_file.kind = "file" =>
          /\ DOMAIN q_file.dag = DOMAIN q_file.tasks
          /\ \A id \in DOMAIN q_file.tasks :
               q_file.dag[id] = q_file.tasks[id].dependencies)
  /\ [][q_file.kind = "file" =>
          /\ q_file'.kind = "file"
          /\ q_file'.execution_order = q_file.execution_order
          /\ q_file'.main_task_id = q_file.main_task_id]_vars

C33_Witness ==
  /\ q_file.kind = "file"
  /\ q_calls = MaxCalls
  /\ \A w \in Workers : wk[w].pc = "idle" /\ wk[w].found = "yes"
  /\ \E t \in DOMAIN q_file.tasks :
       q_file.tasks[t].status = "completed" /\ q_file.dag[t] # {}
  /\ Len(q_file.execution_order) > 1

\* C34: an update_task_status for a task id the queue lacks, or made while
\* there is no queue file, leaves the file as it is; one for a task of the
\* queue changes the record of that task only: the records of the other
\* tasks, the dag and the execution order stay as they are.
C34_UpdateChangesOneRecord ==
  [][\A w \in Workers :
       (wk[w].pc = "write" /\ wk'[w].pc = "idle") =>
         LET tid == wk[w].call.task_id
         IN IF q_file.kind = "file" /\ tid \in DOMAIN q_file.tasks
            THEN /\ q_file'.kind = "file"
                 /\ DOMAIN q_file'.tasks = DOMAIN q_file.tasks
                 /\ \A o \in DOMAIN q_file.tasks \ {tid} :
                      q_file'.tasks[o] = q_file.tasks[o]
                 /\ q_file'.dag = q_file.dag
                 /\ q_file'.execution_order = q_file.execution_order
            ELSE q_file' = q_file]_vars

-----------------------------------------------------------------------------
(* Properties of the calls that read the queue while it is written, checked *)
(* under TornSpec                                                          *)

ReadOnlyCalls == {"get_progress", "get_ready_tasks", "aggregate_results"}

\* C21: a call that finds a queue file it cannot parse returns an error
\* result, a dict with status "error" (and a message): so does a read-only
\* call, and update_task_status ends that way and not with an exception.
C21_CorruptQueueErrorResult ==
  /\ (obs.kind \in ReadOnlyCalls /\ obs.seen[1] = PartialFile) =>
       ("status" \in DOMAIN obs.ret /\ obs.ret.status = "error")
  /\ \A w \in Workers :
       wk[w].call.op = "update_task_status" => wk[w].found # "raised"

\* C27: a read-only call never reads the queue file in the state between a
\* writer's open(queue_path, 'w'), which empties it, and the end of that
\* writer's json.dump.
C27_ConsistentSnapshot ==
  obs.kind \in ReadOnlyCalls => obs.seen[1] # PartialFile

-----------------------------------------------------------------------------
(* Properties of execute_task, checked under AgentFairSpec *)

\* C25: retries are bounded, so execute_task returns whatever the step
\* executor answers.
C25_ExecuteTaskReturns == <>(ag_pc = "returned")

\* C36: execute_task sets the task COMPLETED and returns a successful
\* result only when every step of the task ended with status completed; a
\* task with a step that failed and was not repaired ends FAILED.
C36_CompletedMeansAllSteps ==
  ag_pc = "returned" =>
    /\ (ag_status = "completed" \/ ag_ret = "success") =>
         \A i \in 1..Len(ag_steps) : ag_steps[i].status = "completed"
    /\ (\E i \in 1..Len(ag_steps) : ag_steps[i].status = "failed") =>
         ag_status = "failed" /\ ag_ret = "failure"

-----------------------------------------------------------------------------
(* Properties of execute_workflow, checked under WfSpec *)

\* result k of the workflow is an error that ends the workflow: an error of
\* WorkflowManager, or one of WorkflowManagerV2 whose step does not have
\* on_failure = continue
Aborting(k) ==
  /\ wf_results[k].status = "error"
  /\ ~(wf_version = "v2"
        /\ wf_steps[wf_results[k].step].on_failure = "continue")

\* C37: execute_workflow gives the steps to _execute_step in list order,
\* each once; a step that returns status error ends the workflow with status
\* error and no later step is executed, except in V2 when the step has
\* on_failure = continue, in which case the next step is executed; the
\* workflow returns status success only when no step ended it so.
C37_StepsInOrderAbortOnError ==
  /\ wf_called = [k \in 1..Len(wf_called) |-> k]
  /\ \A k \in 1..Len(wf_results) :
       /\ Aborting(k) =>
            /\ wf_pc = "returned"
            /\ wf_ret.status = "error"
            /\ k = Len(wf_results)
            /\ Len(wf_called) = wf_results[k].step
       /\ (/\ wf_results[k].status = "error"
           /\ ~Aborting(k)
           /\ wf_results[k].step < Len(wf_steps)
           /\ wf_pc \in {"returned", "raised"}) =>
            Len(wf_called) > wf_results[k].step
  /\ (wf_pc = "returned" /\ wf_ret.status = "success") =>
       /\ wf_file = "ok"
       /\ Len(wf_called) = Len(wf_steps)
       /\ \A k \in 1..Len(wf_results) : ~Aborting(k)

C37_Witness ==
  /\ wf_pc = "returned"
  /\ wf_ret.status = "error"
  /\ wf_version = "v2"
  /\ Len(wf_results) = 2
  /\ wf_results[1].status = "error"
  /\ wf_steps[1].on_failure = "continue"
  /\ Aborting(2)

-----------------------------------------------------------------------------
(* Properties of the analyzers, checked under OrchSpec *)

\* the score of the claim: 2 for each complex keyword the request holds plus
\* 1 for each simple keyword it holds
KeywordScore(complex, simple, req) ==
  2 * Cardinality({kw \in complex : Contains(kw, req)})
  + Cardinality({kw \in simple : Contains(kw, req)})

\* the request holds a parallelism hint term (并行, 同时)
ParallelHint(req) == Contains(kw_bingxing, req) \/ Contains(kw_tongshi, req)

\* complexity and decompose flag by the thresholds of the claim
ByThresholds(analysis, score, hint) ==
  /\ score >= 4 => analysis.complexity = "complex" /\ analysis.swarm_mode
  /\ (2 <= score /\ score < 4) =>
       analysis.complexity = "medium" /\ (analysis.swarm_mode <=> hint)
  /\ score < 2 => analysis.complexity = "simple" /\ ~analysis.swarm_mode

\* 修改 一个文件
Request16 == Join(<<kw_xiugai, w_yigewenjian>>)

\* C16: both analyzers (analyze_task of orchestrator.py, analyze_complexity
\* of workflow_runner.py) return complex with decompose true for a score of 4
\* or more, medium with decompose true exactly when the request holds a
\* parallelism hint for a score of 2 or 3, simple with decompose false for a
\* score below 2; "修改 一个文件" is simple, not decomposed.
C16_Thresholds ==
  /\ exec_ret.kind \in {"returned", "raised"} =>
       /\ ByThresholds(exec_ret.analysis,
                       KeywordScore(keywords_complex, keywords_simple, user_request),
                       ParallelHint(user_request))
       /\ user_request = Request16 =>
            exec_ret.analysis.complexity = "simple" /\ ~exec_ret.analysis.swarm_mode
  /\ wr_analysis.kind = "returned" =>
       /\ ByThresholds(wr_analysis.analysis,
                       KeywordScore(complex_keywords, simple_keywords, user_request),
                       ParallelHint(user_request))
       /\ user_request = Request16 =>
            wr_analysis.analysis.complexity = "simple"
              /\ ~wr_analysis.analysis.swarm_mode

====
